---- MODULE Spec2Model ----
(***************************************************************************)
(* The chat endpoint of OllamaUI (src/app/api/chat/route.ts): a POST       *)
(* handler that takes an optional image URL, stores the image, asks the    *)
(* detection service about it and streams the resulting message.           *)
(*                                                                         *)
(* A JavaScript string is a sequence of UTF-16 code units.  A code unit is *)
(* written as a one-character string when it is ASCII and as "U+XXXX"      *)
(* otherwise; "U+D83D" and "U+DD0D" are the surrogate pair of the          *)
(* magnifying-glass emoji.  A byte of the response stream is written as    *)
(* the same one-character string when it is ASCII and as "0xXX" otherwise. *)
(***************************************************************************)
EXTENDS Naturals, Sequences, FiniteSets

\* Bounds of the model.
MaxTime == 1
MaxLen == 3

\* ------------------------------------------------------------ literals

DefaultPrompt ==
    <<"P", "l", "e", "a", "s", "e", " ", "p", "r", "o", "v", "i", "d", "e", " ", "a", "n", " ",
      "i", "m", "a", "g", "e", " ", "f", "o", "r", " ", "o", "b", "j", "e", "c", "t", " ", "d",
      "e", "t", "e", "c", "t", "i", "o", "n", ".">>

ResultsHead ==
    <<"U+D83D", "U+DD0D", " ", "*", "*", "O", "b", "j", "e", "c", "t", " ", "D", "e", "t", "e",
      "c", "t", "i", "o", "n", " ", "R", "e", "s", "u", "l", "t", "s", "*", "*", "\n", "\n",
      "*", "*", "D", "e", "t", "e", "c", "t", "i", "o", "n", " ", "C", "o", "u", "n", "t", ":",
      "*", "*", " ">>

ResultsObjects ==
    <<"\n", "*", "*", "D", "e", "t", "e", "c", "t", "e", "d", " ", "O", "b", "j", "e", "c",
      "t", "s", ":", "*", "*", " ">>

ResultsId ==
    <<"\n", "*", "*", "P", "r", "e", "d", "i", "c", "t", "i", "o", "n", " ", "I", "D", ":",
      "*", "*", " ">>

ResultsAnalyzed ==
    <<"\n", "\n", "I", "'", "v", "e", " ", "a", "n", "a", "l", "y", "z", "e", "d", " ", "y",
      "o", "u", "r", " ", "i", "m", "a", "g", "e", " ", "a", "n", "d", " ", "d", "e", "t", "e",
      "c", "t", "e", "d", " ">>

ResultsInclude ==
    <<" ", "o", "b", "j", "e", "c", "t", "(", "s", ")", ".", " ", "T", "h", "e", " ", "d", "e",
      "t", "e", "c", "t", "e", "d", " ", "o", "b", "j", "e", "c", "t", "s", " ", "i", "n", "c",
      "l", "u", "d", "e", ":", " ">>

ResultsEnd ==
    <<".">>

ErrorHead ==
    <<"U+274C", " ", "*", "*", "O", "b", "j", "e", "c", "t", " ", "D", "e", "t", "e", "c", "t",
      "i", "o", "n", " ", "E", "r", "r", "o", "r", "*", "*", "\n", "\n", "S", "o", "r", "r",
      "y", ",", " ", "I", " ", "e", "n", "c", "o", "u", "n", "t", "e", "r", "e", "d", " ", "a",
      "n", " ", "e", "r", "r", "o", "r", " ", "w", "h", "i", "l", "e", " ", "p", "r", "o", "c",
      "e", "s", "s", "i", "n", "g", " ", "y", "o", "u", "r", " ", "i", "m", "a", "g", "e", ":",
      " ">>

ErrorTail ==
    <<"\n", "\n", "P", "l", "e", "a", "s", "e", " ", "m", "a", "k", "e", " ", "s", "u", "r",
      "e", " ", "t", "h", "e", " ", "o", "b", "j", "e", "c", "t", " ", "d", "e", "t", "e", "c",
      "t", "i", "o", "n", " ", "s", "e", "r", "v", "i", "c", "e", " ", "i", "s", " ", "r", "u",
      "n", "n", "i", "n", "g", " ", "o", "n", " ", "l", "o", "c", "a", "l", "h", "o", "s", "t",
      ":", "8", "0", "8", "0", ".">>

UnknownError ==
    <<"U", "n", "k", "n", "o", "w", "n", " ", "e", "r", "r", "o", "r">>

PredictionApiError ==
    <<"P", "r", "e", "d", "i", "c", "t", "i", "o", "n", " ", "A", "P", "I", " ", "e", "r", "r",
      "o", "r", ":", " ">>

UploadsPrefix ==
    <<"u", "p", "l", "o", "a", "d", "s", "/">>

ImageSuffix ==
    <<"-", "i", "m", "a", "g", "e", ".", "j", "p", "e", "g">>

JoinSeparator ==
    <<",", " ">>


FetchFailed ==
    <<"f", "e", "t", "c", "h", " ", "f", "a", "i", "l", "e", "d">>

InvalidUrl ==
    <<"F", "a", "i", "l", "e", "d", " ", "t", "o", " ", "p", "a", "r", "s", "e", " ", "U", "R",
      "L", " ", "f", "r", "o", "m", " ", "u", "n", "d", "e", "f", "i", "n", "e", "d">>

AccessDenied ==
    <<"A", "c", "c", "e", "s", "s", " ", "D", "e", "n", "i", "e", "d">>

InvalidJson ==
    <<"U", "n", "e", "x", "p", "e", "c", "t", "e", "d", " ", "t", "o", "k", "e", "n", " ", "'",
      "<", "'", ",", " ", "\"", "<", "h", "t", "m", "l", ">", "\"", " ", "i", "s", " ", "n",
      "o", "t", " ", "v", "a", "l", "i", "d", " ", "J", "S", "O", "N">>

NoLabels ==
    <<"C", "a", "n", "n", "o", "t", " ", "r", "e", "a", "d", " ", "p", "r", "o", "p", "e", "r",
      "t", "i", "e", "s", " ", "o", "f", " ", "u", "n", "d", "e", "f", "i", "n", "e", "d", " ",
      "(", "r", "e", "a", "d", "i", "n", "g", " ", "'", "j", "o", "i", "n", "'", ")">>

\* ------------------------------------------------- the runtime's strings

HighSurrogates == {"U+D83D"}
LowSurrogates == {"U+DD0D"}

\* String(n) of a non-negative integer: its decimal digits.
RECURSIVE ToString(_)
ToString(n) ==
    LET digits == <<"0", "1", "2", "3", "4", "5", "6", "7", "8", "9">>
    IN  IF n < 10 THEN <<digits[n + 1]>>
        ELSE ToString(n \div 10) \o <<digits[(n % 10) + 1]>>

\* The concatenation of a sequence of strings.
RECURSIVE Flatten(_)
Flatten(ss) ==
    IF Len(ss) = 0 THEN <<>>
    ELSE IF Len(ss) = 1 THEN ss[1]
    ELSE LET h == Len(ss) \div 2
         IN  Flatten(SubSeq(ss, 1, h)) \o Flatten(SubSeq(ss, h + 1, Len(ss)))

\* Array.prototype.join on an array of strings.
Join(labels, sep) ==
    Flatten([k \in 1..Len(labels) |-> IF k = 1 THEN labels[k] ELSE sep \o labels[k]])

\* String.prototype.split on a one-unit separator: the pieces between the
\* separators, the empty ones included.
Split(s, sep) ==
    LET hits == {k \in 1..Len(s) : s[k] = sep}
        \* the position of the j-th separator; 0 and Len(s) + 1 close the ends
        at(j) == IF j = 0 THEN 0
                 ELSE IF j > Cardinality(hits) THEN Len(s) + 1
                 ELSE CHOOSE h \in hits : Cardinality({g \in hits : g < h}) = j - 1
    IN  [j \in 1..(Cardinality(hits) + 1) |-> SubSeq(s, at(j - 1) + 1, at(j) - 1)]

\* The \uXXXX escape JSON.stringify writes for a lone surrogate.
UnicodeEscape(c) ==
    IF c = "U+D83D" THEN <<"\\", "u", "d", "8", "3", "d">>
    ELSE <<"\\", "u", "d", "d", "0", "d">>

\* Unit k of s is half of a well-formed surrogate pair.
Paired(s, k) ==
    \/ s[k] \in HighSurrogates /\ k < Len(s) /\ s[k + 1] \in LowSurrogates
    \/ s[k] \in LowSurrogates /\ k > 1 /\ s[k - 1] \in HighSurrogates

\* JSON.stringify's QuoteJSONString, without the enclosing quotes.
Escape(s) ==
    Flatten([k \in 1..Len(s) |->
        LET c == s[k]
        IN  IF c = "\"" THEN <<"\\", "\"">>
            ELSE IF c = "\\" THEN <<"\\", "\\">>
            ELSE IF c = "\n" THEN <<"\\", "n">>
            ELSE IF c \in HighSurrogates \cup LowSurrogates /\ ~Paired(s, k)
                 THEN UnicodeEscape(c)
            ELSE <<c>>])

\* JSON values: [t |-> "string" | "number" | "boolean" | "object", v |-> ...];
\* an object's v is the sequence of its members [k |-> name, x |-> value] in
\* insertion order.
JString(s) == [t |-> "string", v |-> s]
JNumber(n) == [t |-> "number", v |-> n]
JBoolean(b) == [t |-> "boolean", v |-> b]
JObject(members) == [t |-> "object", v |-> members]

RECURSIVE JSONStringify(_)
RECURSIVE JSONMembers(_)
JSONStringify(x) ==
    CASE x.t = "string" -> <<"\"">> \o Escape(x.v) \o <<"\"">>
      [] x.t = "number" -> ToString(x.v)
      [] x.t = "boolean" -> IF x.v THEN <<"t", "r", "u", "e">>
                            ELSE <<"f", "a", "l", "s", "e">>
      [] x.t = "object" -> <<"{">> \o JSONMembers(x.v) \o <<"}">>

JSONMembers(members) ==
    IF Len(members) = 0 THEN <<>>
    ELSE <<"\"">> \o Escape(members[1].k) \o <<"\"", ":">>
         \o JSONStringify(members[1].x)
         \o (IF Len(members) = 1 THEN <<>> ELSE <<",">> \o JSONMembers(Tail(members)))

\* TextEncoder.encode: UTF-8, a lone surrogate becoming U+FFFD.
Encode(s) ==
    Flatten([k \in 1..Len(s) |->
        LET c == s[k]
        IN  IF c \in HighSurrogates /\ Paired(s, k) THEN <<"0xF0", "0x9F", "0x94", "0x8D">>
            ELSE IF c \in LowSurrogates /\ Paired(s, k) THEN <<>>
            ELSE IF c \in HighSurrogates \cup LowSurrogates THEN <<"0xEF", "0xBF", "0xBD">>
            ELSE IF c = "U+274C" THEN <<"0xE2", "0x9D", "0x8C">>
            ELSE <<c>>])

\* ------------------------------------------------------ the stream framer

PromptTokens == 10

\* message.split('\n')
Lines(message) == Split(message, "\n")

\* Content, with the newline forgotten.
ContentWithoutNewline(lines, i) == lines[i + 1]

\* The content of line i (from 0): the newline is put back except on the last.
Content(lines, i) ==
    IF i < Len(lines) - 1 THEN lines[i + 1] \o <<"\n">> ELSE lines[i + 1]

ContentRecord(content) ==
    Encode(<<"0", ":">> \o JSONStringify(JString(content)) \o <<"\n">>)

Usage(message) ==
    JObject(<<[k |-> <<"p", "r", "o", "m", "p", "t", "T", "o", "k", "e", "n", "s">>,
               x |-> JNumber(PromptTokens)],
              [k |-> <<"c", "o", "m", "p", "l", "e", "t", "i", "o", "n", "T", "o", "k", "e",
                       "n", "s">>,
               x |-> JNumber(Len(message))]>>)

FinishReason ==
    [k |-> <<"f", "i", "n", "i", "s", "h", "R", "e", "a", "s", "o", "n">>,
     x |-> JString(<<"s", "t", "o", "p">>)]

EndRecord(message) ==
    Encode(<<"e", ":">>
           \o JSONStringify(JObject(<<FinishReason,
                [k |-> <<"u", "s", "a", "g", "e">>, x |-> Usage(message)],
                [k |-> <<"i", "s", "C", "o", "n", "t", "i", "n", "u", "e", "d">>,
                 x |-> JBoolean(FALSE)]>>))
           \o <<"\n">>)

\* DoneRecord, as a second e: record.
DoneRecordAsEnd(message) == EndRecord(message)

\* DoneRecord, with the usage counting lines.
DoneRecordCountingLines(message) ==
    Encode(<<"d", ":">>
           \o JSONStringify(JObject(<<FinishReason,
                [k |-> <<"u", "s", "a", "g", "e">>, x |-> Usage(Lines(message))]>>))
           \o <<"\n">>)

DoneRecord(message) ==
    Encode(<<"d", ":">>
           \o JSONStringify(JObject(<<FinishReason,
                [k |-> <<"u", "s", "a", "g", "e">>, x |-> Usage(message)]>>))
           \o <<"\n">>)

\* The content records, in the order the loop enqueues them.
ContentRecords(lines) ==
    [i \in 1..Len(lines) |-> ContentRecord(Content(lines, i - 1))]

\* Everything start(controller) enqueues before it closes the stream.
Enqueued(message) ==
    ContentRecords(Lines(message)) \o <<EndRecord(message), DoneRecord(message)>>

\* ------------------------------------------------------------ the state

Requests == {"r1", "r2"}

VARIABLES
    now,      \* Date.now(), in milliseconds
    bucket,   \* the storage bucket: the set of its objects [key, body]
    req,      \* per request: the handler's locals and its position
    input,    \* the framer alone: the message it is given
    lines,    \* the framer alone: message.split('\n')
    i,        \* the framer alone: the loop counter
    queue,    \* the framer alone: the chunks enqueued so far
    closed,   \* the framer alone: controller.close() was called
    fpc       \* the framer alone: its state

vars == <<now, bucket, req, input, lines, i, queue, closed, fpc>>
handlerVars == <<now, bucket, req>>
framerVars == <<input, lines, i, queue, closed, fpc>>

\* ------------------------------------------------- the world around POST

\* What the image URLs of the model serve.
Web == [u \in {"http://x/a.jpg", "http://x/b.jpg"} |->
          IF u = "http://x/a.jpg" THEN "jpegA" ELSE "jpegB"]

\* What fetch(imageUrl) settles with: it rejects when the URL does not parse or
\* the network fails, and resolves with a response, whatever its status.
FetchOutcomes(url) ==
    IF url \notin DOMAIN Web
    THEN {[throws |-> TRUE, message |-> InvalidUrl, status |-> 0, body |-> ""]}
    ELSE {[throws |-> TRUE, message |-> FetchFailed, status |-> 0, body |-> ""],
          [throws |-> FALSE, message |-> <<>>, status |-> 200, body |-> Web[url]],
          [throws |-> FALSE, message |-> <<>>, status |-> 404, body |-> "notFoundPage"]}

\* PutObject: the object under the key is replaced.
PutObject(objects, key, body) ==
    {o \in objects : o.Key # key} \cup {[Key |-> key, Body |-> body]}

GetObject(objects, key) == (CHOOSE o \in objects : o.Key = key).Body

\* What the detection service finds in an image.
Detections(image) ==
    IF image = "jpegA"
    THEN [detection_count |-> 2,
          labels |-> << <<"c", "a", "t">>, <<"d", "o", "g">> >>,
          prediction_uid |-> <<"a", "b", "c", "1", "2", "3">>]
    ELSE [detection_count |-> 1,
          labels |-> << <<"c", "a", "r">> >>,
          prediction_uid |-> <<"d", "e", "f", "4", "5", "6">>]

\* encodeURIComponent on the units a storage key holds.
EncodeURIComponent(s) ==
    Flatten([k \in 1..Len(s) |-> IF s[k] = "/" THEN <<"%", "2", "F">> ELSE <<s[k]>>])

\* The service's reading of its img query parameter: %2F is a slash.
DecodeURIComponent(s) ==
    Flatten([k \in 1..Len(s) |->
        IF s[k] = "%" THEN <<"/">>
        ELSE IF (k > 1 /\ s[k - 1] = "%") \/ (k > 2 /\ s[k - 2] = "%") THEN <<>>
        ELSE <<s[k]>>])

\* What POST /predict?img=... settles with: a network failure, a non-2xx
\* status, or a 2xx response whose body is not JSON, is JSON without labels, or
\* is the detection result of the object stored under the key.
PredictOutcomes(objects, img) ==
    LET image == GetObject(objects, DecodeURIComponent(img))
        none == [detection_count |-> 0, labels |-> <<>>, prediction_uid |-> <<>>]
        base == [throws |-> FALSE, status |-> 200, json |-> TRUE, hasLabels |-> TRUE,
                 image |-> "", result |-> none]
    IN  {[base EXCEPT !.throws = TRUE],
         [base EXCEPT !.status = 500],
         [base EXCEPT !.json = FALSE],
         [base EXCEPT !.hasLabels = FALSE]}
        \cup (IF image \in {"jpegA", "jpegB"}
              THEN {[base EXCEPT !.image = image, !.result = Detections(image)]}
              ELSE {})

\* ------------------------------------------------------------- requests

NoMessages == [present |-> FALSE, list |-> <<>>]
EmptyMessages == [present |-> TRUE, list |-> <<>>]
OneMessage ==
    [present |-> TRUE,
     list |-> <<[role |-> "user", content |-> "what is this?",
                 experimental_attachments |-> "image.jpg"]>>]

NoData == [present |-> FALSE, hasImages |-> FALSE, images |-> <<>>]
Images(urls) == [present |-> TRUE, hasImages |-> TRUE, images |-> urls]

\* The parsed bodies of the model: { messages, selectedModel, data }, with the
\* messages and the data absent, empty or filled.
Bodies ==
    {[messages |-> m, selectedModel |-> "llama3", data |-> d] :
        <<m, d>> \in {<<NoMessages, NoData>>,
                      <<NoMessages, Images(<<"http://x/a.jpg">>)>>,
                      <<EmptyMessages, NoData>>,
                      <<OneMessage, [NoData EXCEPT !.present = TRUE]>>,
                      <<OneMessage, Images(<<>>)>>,
                      <<OneMessage, Images(<<"http://x/a.jpg">>)>>,
                      <<EmptyMessages, Images(<<"http://x/b.jpg", "http://x/a.jpg">>)>>}}

NoError == [isError |-> FALSE, message |-> <<>>]
NoResult == [detection_count |-> 0, labels |-> <<>>, prediction_uid |-> <<>>]
NoResponse == [status |-> 0, contentType |-> "", dataStream |-> "", body |-> <<>>,
               closed |-> FALSE]

IdleRequest ==
    [pc |-> "idle",
     body |-> [messages |-> NoMessages, selectedModel |-> "", data |-> NoData],
     cleanedMessages |-> <<>>,
     message |-> <<>>,
     imageUrl |-> "",
     status |-> 0,
     buffer |-> "",
     fileKey |-> <<>>,
     predictionResult |-> NoResult,
     error |-> NoError,
     response |-> NoResponse,
     \* history, for the properties
     calls |-> <<>>,
     failedStep |-> "none",
     detectedOn |-> ""]

\* ----------------------------------------------------------------- POST

\* const { experimental_attachments, ...cleanMessage } = message
CleanMessage(m) ==
    [f \in (DOMAIN m) \ {"experimental_attachments"} |-> m[f]]

\* HasImages, without the length test.
HasImagesList(data) == data.present /\ data.hasImages

\* data?.images && data.images.length > 0
HasImages(data) == data.present /\ data.hasImages /\ Len(data.images) > 0

\* FirstImage, taking the last one.
LastImage(images) == IF Len(images) > 0 THEN images[Len(images)] ELSE "undefined"

\* data.images[0]
FirstImage(images) == IF Len(images) > 0 THEN images[1] ELSE "undefined"

\* `uploads/${Date.now()}-image.jpeg`
FileKey(time) == UploadsPrefix \o ToString(time) \o ImageSuffix

\* predictionResponse.ok
Ok(status) == status \in 200..299

\* SuccessReport, with the first label alone.
SuccessReportFirstLabel(predictionResult) ==
    ResultsHead \o ToString(predictionResult.detection_count)
    \o ResultsObjects \o predictionResult.labels[1]
    \o ResultsId \o predictionResult.prediction_uid
    \o ResultsAnalyzed \o ToString(predictionResult.detection_count)
    \o ResultsInclude \o predictionResult.labels[1]
    \o ResultsEnd

SuccessReport(predictionResult) ==
    ResultsHead \o ToString(predictionResult.detection_count)
    \o ResultsObjects \o Join(predictionResult.labels, JoinSeparator)
    \o ResultsId \o predictionResult.prediction_uid
    \o ResultsAnalyzed \o ToString(predictionResult.detection_count)
    \o ResultsInclude \o Join(predictionResult.labels, JoinSeparator)
    \o ResultsEnd

\* ErrorReport, with the error's text left out.
ErrorReportWithoutText(error) == ErrorHead \o UnknownError \o ErrorTail

\* error instanceof Error ? error.message : 'Unknown error'
ErrorReport(error) ==
    ErrorHead \o (IF error.isError THEN error.message ELSE UnknownError) \o ErrorTail

\* new Response(stream, { headers }): start(controller) has run by then.
StreamResponse(message) ==
    [status |-> 200, contentType |-> "text/plain; charset=utf-8", dataStream |-> "v1",
     body |-> Enqueued(message), closed |-> TRUE]

\* The handler's last stretch: the message is framed and the response returned.
Respond(r, locals, message) ==
    req' = [req EXCEPT ![r] = [locals EXCEPT !.pc = "returned",
                                             !.message = message,
                                             !.response = StreamResponse(message)]]

\* The catch block, then the last stretch.
Catch(r, locals, step, text) ==
    LET error == [isError |-> TRUE, message |-> text]
    IN  Respond(r, [locals EXCEPT !.failedStep = step, !.error = error],
                ErrorReport(error))

\* The request arrives with a parsed body; the handler runs to its first
\* suspension: the fetch of the image, or the end when there is no image.
\* messages.map is outside the try: it raises when messages is no array.
Receive(r) ==
    /\ req[r].pc = "idle"
    /\ \E b \in Bodies :
          LET cleaned == [k \in 1..Len(b.messages.list) |->
                             CleanMessage(b.messages.list[k])]
              locals == [req[r] EXCEPT !.body = b, !.cleanedMessages = cleaned,
                                       !.message = DefaultPrompt]
              url == FirstImage(b.data.images)
          IN  IF ~b.messages.present
                  THEN req' = [req EXCEPT ![r] = [@ EXCEPT !.pc = "raised", !.body = b]]
              ELSE IF HasImages(b.data)
                  THEN req' = [req EXCEPT ![r] =
                                  [locals EXCEPT !.pc = "fetching", !.imageUrl = url,
                                       !.calls = <<[op |-> "fetch", url |-> url,
                                                    key |-> <<>>]>>]]
              ELSE Respond(r, locals, DefaultPrompt)
    /\ UNCHANGED <<now, bucket>>

\* fetch(imageUrl) settles; the body is read, the key built and the upload sent.
FetchSettles(r) ==
    /\ req[r].pc = "fetching"
    /\ \E o \in FetchOutcomes(req[r].imageUrl) :
          IF o.throws
              THEN Catch(r, req[r], "fetch", o.message)
          ELSE LET fileKey == FileKey(now)
               IN  req' = [req EXCEPT ![r] =
                              [@ EXCEPT !.pc = "uploading", !.status = o.status,
                                        !.buffer = o.body, !.fileKey = fileKey,
                                        !.calls = Append(@, [op |-> "put", url |-> "",
                                                             key |-> fileKey])]]
    /\ UNCHANGED <<now, bucket>>

\* s3.send settles; on success the object is stored and the service is called.
UploadSettles(r) ==
    /\ req[r].pc = "uploading"
    /\ \E stored \in BOOLEAN :
          IF stored
              THEN /\ bucket' = PutObject(bucket, req[r].fileKey, req[r].buffer)
                   /\ req' = [req EXCEPT ![r] =
                                 [@ EXCEPT !.pc = "predicting",
                                           !.calls = Append(@, [op |-> "predict", url |-> "",
                                               key |-> EncodeURIComponent(req[r].fileKey)])]]
          ELSE /\ Catch(r, req[r], "upload", AccessDenied)
               /\ UNCHANGED bucket
    /\ UNCHANGED now

\* The detection call settles; its result is parsed, formatted and streamed.
PredictSettles(r) ==
    /\ req[r].pc = "predicting"
    /\ \E o \in PredictOutcomes(bucket, req[r].calls[3].key) :
          IF o.throws THEN Catch(r, req[r], "predict", FetchFailed)
          ELSE IF ~Ok(o.status)
              THEN Catch(r, req[r], "status", PredictionApiError \o ToString(o.status))
          ELSE IF ~o.json THEN Catch(r, req[r], "parse", InvalidJson)
          ELSE IF ~o.hasLabels THEN Catch(r, req[r], "format", NoLabels)
          ELSE Respond(r, [req[r] EXCEPT !.predictionResult = o.result,
                                         !.detectedOn = o.image],
                       SuccessReport(o.result))
    /\ UNCHANGED <<now, bucket>>

\* A millisecond passes.
Tick ==
    /\ now < MaxTime
    /\ now' = now + 1
    /\ UNCHANGED <<bucket, req>>

FramerIdle ==
    /\ input = <<>>
    /\ lines = <<>>
    /\ i = 0
    /\ queue = <<>>
    /\ closed = FALSE
    /\ fpc = "idle"

HandlerInit ==
    /\ now = 0
    /\ bucket = {}
    /\ req = [r \in Requests |-> IdleRequest]

Init == HandlerInit /\ FramerIdle

Next ==
    \/ \E r \in Requests : Receive(r) /\ UNCHANGED framerVars
    \/ \E r \in Requests : FetchSettles(r) /\ UNCHANGED framerVars
    \/ \E r \in Requests : UploadSettles(r) /\ UNCHANGED framerVars
    \/ \E r \in Requests : PredictSettles(r) /\ UNCHANGED framerVars
    \/ Tick /\ UNCHANGED framerVars

Spec == Init /\ [][Next]_vars

\* ------------------------------------------- the framer, one step at a time

Alphabet == {"a", "\n", "\"", "\\", "U+D83D", "U+DD0D"}

Strings(n) == UNION {[1..k -> Alphabet] : k \in 0..n}

\* The messages the framer is run on: every short string, and one message of
\* each kind the handler builds.
FramerInputs ==
    Strings(MaxLen)
    \cup {DefaultPrompt,
          SuccessReport(Detections("jpegA")),
          ErrorReport([isError |-> TRUE, message |-> InvalidJson]),
          ErrorReport([isError |-> FALSE, message |-> <<>>])}

\* const lines = message.split('\n')
FramerStart ==
    /\ fpc = "start"
    /\ lines' = Lines(input)
    /\ i' = 0
    /\ fpc' = "emitting-lines"
    /\ UNCHANGED <<input, queue, closed>>

\* One turn of the loop.
EmitLine ==
    /\ fpc = "emitting-lines"
    /\ i < Len(lines)
    /\ queue' = Append(queue, ContentRecord(Content(lines, i)))
    /\ i' = i + 1
    /\ fpc' = IF i + 1 < Len(lines) THEN "emitting-lines" ELSE "emitting-end-metadata"
    /\ UNCHANGED <<input, lines, closed>>

EmitEnd ==
    /\ fpc = "emitting-end-metadata"
    /\ queue' = Append(queue, EndRecord(input))
    /\ fpc' = "emitting-done-metadata"
    /\ UNCHANGED <<input, lines, i, closed>>

EmitDone ==
    /\ fpc = "emitting-done-metadata"
    /\ queue' = Append(queue, DoneRecord(input))
    /\ fpc' = "closing"
    /\ UNCHANGED <<input, lines, i, closed>>

\* controller.close()
Close ==
    /\ fpc = "closing"
    /\ closed' = TRUE
    /\ fpc' = "closed"
    /\ UNCHANGED <<input, lines, i, queue>>

InitFramer ==
    /\ HandlerInit
    /\ input \in FramerInputs
    /\ lines = <<>>
    /\ i = 0
    /\ queue = <<>>
    /\ closed = FALSE
    /\ fpc = "start"

NextFramer ==
    \/ FramerStart /\ UNCHANGED handlerVars
    \/ EmitLine /\ UNCHANGED handlerVars
    \/ EmitEnd /\ UNCHANGED handlerVars
    \/ EmitDone /\ UNCHANGED handlerVars
    \/ Close /\ UNCHANGED handlerVars

SpecFramer == InitFramer /\ [][NextFramer]_vars

\* ------------------------------------------------------------ properties

\* ------------------------------------------------ reading a stream back

StartsWith(s, pat) == Len(s) >= Len(pat) /\ SubSeq(s, 1, Len(pat)) = pat

Contains(s, pat) ==
    \/ Len(pat) = 0
    \/ \E k \in 1..(Len(s) + 1 - Len(pat)) :
          s[k] = pat[1] /\ SubSeq(s, k, k + Len(pat) - 1) = pat

\* The code units of UTF-8 bytes, as a TextDecoder gives them.
Decode(bytes) ==
    Flatten([k \in 1..Len(bytes) |->
        LET b == bytes[k]
        IN  IF b = "0xF0" THEN <<"U+D83D", "U+DD0D">>
            ELSE IF b = "0xE2" THEN <<"U+274C">>
            ELSE IF b = "0xEF" THEN <<"U+FFFD">>
            ELSE IF b \in {"0x9F", "0x94", "0x8D", "0x9D", "0x8C", "0xBF", "0xBD"} THEN <<>>
            ELSE <<b>>])

\* How many backslashes stand right before unit k.
BackslashesBefore(s, k) ==
    CHOOSE d \in 0..(k - 1) :
        /\ d = k - 1 \/ s[k - 1 - d] # "\\"
        /\ \A e \in 0..(d - 1) : s[k - 1 - e] = "\\"

\* Unit k follows the backslash of an escape.
Escaped(s, k) == BackslashesBefore(s, k) % 2 = 1

\* Unit k is one of the four digits of a \uXXXX escape.
HexOfEscape(s, k) ==
    \E j \in 1..4 : k - j >= 1 /\ s[k - j] = "u" /\ Escaped(s, k - j)

CodeUnit(hex) ==
    IF hex = <<"d", "8", "3", "d">> THEN "U+D83D"
    ELSE IF hex = <<"d", "d", "0", "d">> THEN "U+DD0D"
    ELSE "U+FFFF"

\* JSON.parse of a string literal.
ParseString(json) ==
    LET s == SubSeq(json, 2, Len(json) - 1)
    IN  Flatten([k \in 1..Len(s) |->
            IF HexOfEscape(s, k) THEN <<>>
            ELSE IF Escaped(s, k)
                 THEN (IF s[k] = "n" THEN <<"\n">>
                       ELSE IF s[k] = "u" THEN <<CodeUnit(SubSeq(s, k + 1, k + 4))>>
                       ELSE <<s[k]>>)
            ELSE IF s[k] = "\\" THEN <<>>
            ELSE <<s[k]>>])

\* A record is tag, colon, payload, newline, and holds no other newline.
WellFramed(chunk) ==
    /\ Len(chunk) >= 3
    /\ chunk[2] = ":"
    /\ \A k \in 1..Len(chunk) : chunk[k] = "\n" <=> k = Len(chunk)

Tag(chunk) == chunk[1]

Payload(chunk) ==
    LET text == Decode(chunk) IN SubSeq(text, 3, Len(text) - 1)

\* The decoded contents of the content records of a stream, in emission order.
Contents(chunks) ==
    LET content == {k \in 1..Len(chunks) : Tag(chunks[k]) = "0"}
    IN  [k \in 1..Cardinality(content) |->
            ParseString(Payload(chunks[CHOOSE c \in content :
                                          Cardinality({b \in content : b < c}) = k - 1]))]

NewlinesIn(s) == Cardinality({k \in 1..Len(s) : s[k] = "\n"})

\* The number that follows key in a JSON text.
NumberAfter(text, key) ==
    LET at == CHOOSE k \in 1..Len(text) : SubSeq(text, k, k + Len(key) - 1) = key
        first == at + Len(key)
        digits == <<"0", "1", "2", "3", "4", "5", "6", "7", "8", "9">>
        isDigit(k) == k <= Len(text) /\ \E d \in 1..10 : digits[d] = text[k]
        value(k) == (CHOOSE d \in 1..10 : digits[d] = text[k]) - 1
        last == CHOOSE k \in first..Len(text) :
                    (\A j \in first..k : isDigit(j)) /\ ~isDigit(k + 1)
        pow10[e \in 0..9] == IF e = 0 THEN 1 ELSE 10 * pow10[e - 1]
        sum[k \in (first - 1)..last] ==
            IF k < first THEN 0 ELSE sum[k - 1] + value(k) * pow10[last - k]
    IN  sum[last]

ErrorHeaderText ==
    <<"U+274C", " ", "*", "*", "O", "b", "j", "e", "c", "t", " ", "D", "e", "t", "e", "c", "t",
      "i", "o", "n", " ", "E", "r", "r", "o", "r", "*", "*">>

ServiceHintText ==
    <<"P", "l", "e", "a", "s", "e", " ", "m", "a", "k", "e", " ", "s", "u", "r", "e", " ", "t",
      "h", "e", " ", "o", "b", "j", "e", "c", "t", " ", "d", "e", "t", "e", "c", "t", "i", "o",
      "n", " ", "s", "e", "r", "v", "i", "c", "e", " ", "i", "s", " ", "r", "u", "n", "n", "i",
      "n", "g", " ", "o", "n", " ", "l", "o", "c", "a", "l", "h", "o", "s", "t", ":", "8", "0",
      "8", "0", ".">>

Status500Text ==
    <<"P", "r", "e", "d", "i", "c", "t", "i", "o", "n", " ", "A", "P", "I", " ", "e", "r", "r",
      "o", "r", ":", " ", "5", "0", "0">>

DefaultPromptText ==
    <<"P", "l", "e", "a", "s", "e", " ", "p", "r", "o", "v", "i", "d", "e", " ", "a", "n", " ",
      "i", "m", "a", "g", "e", " ", "f", "o", "r", " ", "o", "b", "j", "e", "c", "t", " ", "d",
      "e", "t", "e", "c", "t", "i", "o", "n", ".">>

ResultsHeaderText ==
    <<"U+D83D", "U+DD0D", " ", "*", "*", "O", "b", "j", "e", "c", "t", " ", "D", "e", "t", "e",
      "c", "t", "i", "o", "n", " ", "R", "e", "s", "u", "l", "t", "s", "*", "*">>

CountLabelText ==
    <<"D", "e", "t", "e", "c", "t", "i", "o", "n", " ", "C", "o", "u", "n", "t", ":", "*", "*",
      " ">>

ObjectsLabelText ==
    <<"D", "e", "t", "e", "c", "t", "e", "d", " ", "O", "b", "j", "e", "c", "t", "s", ":", "*",
      "*", " ">>

IdLabelText ==
    <<"P", "r", "e", "d", "i", "c", "t", "i", "o", "n", " ", "I", "D", ":", "*", "*", " ">>

ScenarioACount ==
    <<"D", "e", "t", "e", "c", "t", "i", "o", "n", " ", "C", "o", "u", "n", "t", ":", "*", "*",
      " ", "2">>

ScenarioALabels ==
    <<"c", "a", "t", ",", " ", "d", "o", "g">>

ScenarioAId ==
    <<"a", "b", "c", "1", "2", "3">>

FinishStopText ==
    <<"\"", "f", "i", "n", "i", "s", "h", "R", "e", "a", "s", "o", "n", "\"", ":", "\"", "s",
      "t", "o", "p", "\"">>

PromptTokensKey ==
    <<"\"", "p", "r", "o", "m", "p", "t", "T", "o", "k", "e", "n", "s", "\"", ":">>

CompletionTokensKey ==
    <<"\"", "c", "o", "m", "p", "l", "e", "t", "i", "o", "n", "T", "o", "k", "e", "n", "s",
      "\"", ":">>

NotContinuedText ==
    <<"\"", "i", "s", "C", "o", "n", "t", "i", "n", "u", "e", "d", "\"", ":", "f", "a", "l",
      "s", "e">>

ContinuedKey ==
    <<"\"", "i", "s", "C", "o", "n", "t", "i", "n", "u", "e", "d", "\"">>

\* ------------------------------------------------------------ the framer

\* C2: whatever the message (the empty one included), the records enqueued are
\* well-framed, the content records come first, one per line of the message,
\* then exactly one e: record, then exactly one d: record; the stream is closed
\* once they are all out, every state before the close has a step to take
\* (the loop is left only through its last turn), and a closed stream holds
\* exactly these records and no other.
C2_FramerOrder ==
    LET n == Len(queue)
        nLines == NewlinesIn(input) + 1
        expected(k) == IF k <= nLines THEN "0" ELSE IF k = nLines + 1 THEN "e" ELSE "d"
    IN  /\ n <= nLines + 2
        /\ \A k \in 1..n : WellFramed(queue[k]) /\ Tag(queue[k]) = expected(k)
        /\ closed => n = nLines + 2
        /\ closed <=> fpc = "closed"
        /\ fpc \in {"start", "emitting-lines", "emitting-end-metadata",
                    "emitting-done-metadata", "closing", "closed"}
        /\ fpc = "emitting-lines" => i < Len(lines)

C2_EmptyMessageClosed ==
    /\ closed
    /\ input = <<>>
    /\ Len(queue) = 3

\* C3: once the stream is closed, the decoded contents of its content records,
\* concatenated in emission order, are the message; every content but the last
\* ends with its only newline and the last holds no newline.
C3_RoundTrip ==
    closed =>
        LET contents == Contents(queue)
            n == Len(contents)
        IN  /\ Flatten(contents) = input
            /\ \A k \in 1..(n - 1) :
                  /\ NewlinesIn(contents[k]) = 1
                  /\ contents[k][Len(contents[k])] = "\n"
            /\ NewlinesIn(contents[n]) = 0

C3_BlankLineAndTrailingNewline ==
    /\ closed
    /\ input = <<"a", "\n", "\n">>
    /\ Contents(queue) = << <<"a", "\n">>, <<"\n">>, <<>> >>

\* ----------------------------------------------------------- the handler

HasNoImage(data) == ~data.present \/ ~data.hasImages \/ data.images = <<>>

Streamed(r) ==
    /\ req[r].pc = "returned"
    /\ req[r].response.status = 200
    /\ req[r].response.closed
    /\ Flatten(Contents(req[r].response.body)) = req[r].message

\* C1: when a step of the detection pipeline has failed (the fetch, the
\* upload, the detection call, its status, the parsing or the formatting of
\* its result), POST has not raised: the message starts with the error header,
\* holds the error's text (the status of a rejected detection call included)
\* and the service hint, and it is streamed in a 200 response.
C1_FailuresBecomeMessages ==
    \A r \in Requests :
        req[r].failedStep # "none" =>
            /\ req[r].failedStep \in {"fetch", "upload", "predict", "status", "parse", "format"}
            /\ StartsWith(req[r].message, ErrorHeaderText)
            /\ req[r].error.message # <<>>
            /\ Contains(req[r].message, req[r].error.message)
            /\ req[r].failedStep = "status" => Contains(req[r].message, Status500Text)
            /\ Contains(req[r].message, ServiceHintText)
            /\ Streamed(r)

C1_TwoFailures ==
    /\ req["r1"].failedStep = "format"
    /\ req["r2"].failedStep = "status"
    /\ req["r1"].pc = "returned"
    /\ req["r2"].pc = "returned"

\* C4: a request without an image reference (no data, no image list, or an
\* empty one) whose handler got past the normalizer has the default prompt as
\* its message, and makes no external call.
C4_DefaultPrompt ==
    \A r \in Requests :
        req[r].pc \notin {"idle", "raised"} /\ HasNoImage(req[r].body.data) =>
            /\ req[r].pc = "returned"
            /\ req[r].message = DefaultPromptText
            /\ req[r].calls = <<>>

C4_NoDataAndEmptyList ==
    /\ req["r1"].pc = "returned"
    /\ ~req["r1"].body.data.present
    /\ req["r2"].pc = "returned"
    /\ req["r2"].body.data.hasImages
    /\ req["r2"].body.data.images = <<>>

\* The labels stand in s from unit k on, in order, ", " between them.
LabelsAt(s, k, labels) ==
    LET start[j \in 1..Len(labels)] ==
            IF j = 1 THEN k ELSE start[j - 1] + Len(labels[j - 1]) + 2
    IN  \A j \in 1..Len(labels) :
            /\ SubSeq(s, start[j], start[j] + Len(labels[j]) - 1) = labels[j]
            /\ j < Len(labels) =>
                  SubSeq(s, start[j] + Len(labels[j]), start[j] + Len(labels[j]) + 1)
                      = <<",", " ">>

\* C5: when the fetch, the upload and the detection call have succeeded and
\* the service has returned a detection result, the message is the success
\* report: it holds the count, the labels in order joined by ", " and the
\* prediction identifier the service returned, each in full.
C5_SuccessReport ==
    \A r \in Requests :
        req[r].pc = "returned" /\ req[r].failedStep = "none" /\ Len(req[r].calls) = 3 =>
            LET m == req[r].message
                result == req[r].predictionResult
            IN  /\ StartsWith(m, ResultsHeaderText)
                /\ Contains(m, CountLabelText \o ToString(result.detection_count) \o <<"\n">>)
                /\ \E k \in (Len(ObjectsLabelText) + 1)..Len(m) :
                      /\ m[k - 1] = " "
                      /\ SubSeq(m, k - Len(ObjectsLabelText), k - 1) = ObjectsLabelText
                      /\ LabelsAt(m, k, result.labels)
                /\ Contains(m, IdLabelText \o result.prediction_uid \o <<"\n">>)
                /\ req[r].detectedOn = "jpegA" =>
                      /\ Contains(m, ScenarioACount)
                      /\ Contains(m, ScenarioALabels)
                      /\ Contains(m, ScenarioAId)

C5_TwoLabels ==
    \E r \in Requests :
        /\ req[r].pc = "returned"
        /\ req[r].failedStep = "none"
        /\ Len(req[r].predictionResult.labels) = 2

\* C6: in every response the e: record and the d: record both carry the
\* finish reason "stop", promptTokens 10 and completionTokens equal to the
\* length of the message whose lines are the content records; the e: record
\* alone carries isContinued, and it is false.
C6_Usage ==
    \A r \in Requests :
        req[r].pc = "returned" =>
            LET body == req[r].response.body
                n == Len(body)
                e == Payload(body[n - 1])
                d == Payload(body[n])
                emitted == Flatten(Contents(body))
            IN  /\ Tag(body[n - 1]) = "e" /\ Tag(body[n]) = "d"
                /\ Contains(e, FinishStopText) /\ Contains(d, FinishStopText)
                /\ NumberAfter(e, PromptTokensKey) = 10
                /\ NumberAfter(d, PromptTokensKey) = 10
                /\ emitted = req[r].message
                /\ NumberAfter(e, CompletionTokensKey) = Len(emitted)
                /\ NumberAfter(d, CompletionTokensKey) = Len(emitted)
                /\ Contains(e, NotContinuedText)
                /\ ~Contains(d, ContinuedKey)

C6_ThreeScenarios ==
    /\ req["r1"].pc = "returned" /\ req["r1"].failedStep = "upload"
    /\ req["r2"].pc = "returned" /\ req["r2"].failedStep = "none"
    /\ Len(req["r2"].calls) = 3

\* C7 as claimed: the normalizer raises on no parsed body.
C7_NormalizerNeverRaises ==
    \A r \in Requests : req[r].pc # "raised"

\* C8 as claimed, for the requests whose image fetch succeeded: the detection
\* result a request reports was computed on the image this request fetched and
\* uploaded, whatever the other request does.
C8_OwnImageDetected ==
    \A r \in Requests :
        req[r].status = 200 /\ req[r].detectedOn # "" =>
            req[r].detectedOn = req[r].buffer

\* C9: the external calls of a request are a prefix of fetch, upload,
\* detection, each made once; the fetch is of the first image URL, the
\* detection call carries the key of the upload, and a failed step is the last
\* call of the request.
C9_CallOrder ==
    \A r \in Requests :
        LET c == req[r].calls
            order == <<"fetch", "put", "predict">>
            madeBy == [s \in {"fetch", "upload", "predict", "status", "parse", "format"} |->
                          IF s = "fetch" THEN 1 ELSE IF s = "upload" THEN 2 ELSE 3]
        IN  /\ Len(c) <= 3
            /\ \A k \in 1..Len(c) : c[k].op = order[k]
            /\ Len(c) >= 1 => c[1].url = req[r].body.data.images[1]
            /\ Len(c) >= 2 => c[2].key = req[r].fileKey
            /\ Len(c) >= 3 => DecodeURIComponent(c[3].key) = c[2].key
            /\ req[r].failedStep # "none" => Len(c) = madeBy[req[r].failedStep]
            /\ req[r].pc = "fetching" => Len(c) = 1
            /\ req[r].pc = "uploading" => Len(c) = 2
            /\ req[r].pc = "predicting" => Len(c) = 3

C9_SecondImageIgnored ==
    \E r \in Requests :
        /\ Len(req[r].body.data.images) = 2
        /\ Len(req[r].calls) = 3
        /\ req[r].pc = "returned"

\* C10 as claimed: after an image fetch that ended with a non-success status
\* nothing is uploaded and the message is the error report.
C10_FailedFetchStopsPipeline ==
    \A r \in Requests :
        req[r].status # 0 /\ req[r].status \notin 200..299 =>
            /\ Len(req[r].calls) <= 1
            /\ req[r].pc = "returned" => StartsWith(req[r].message, ErrorHeaderText)

====
